---- MODULE Spec2Model ----
(***************************************************************************)
(* The request pipeline of the books API (igcarvalhaes/imersaoBackend):    *)
(* the Fastify application wired in server.ts (route plugins registered    *)
(* one by one, @fastify/jwt, the zod validator and serializer compilers),  *)
(* the seven routes, and the Prisma record store behind them.              *)
(*                                                                         *)
(* A request occupies a slot and moves through Fastify's lifecycle:        *)
(*   onRequest hooks -> validation -> preHandler hooks -> handler steps.   *)
(* The stages before the handler read the request and the clock only, so   *)
(* a request's arrival, those stages and its handler up to the end of the  *)
(* handler's first await are one step. Each later await of a handler on    *)
(* bcrypt or on the store ends a step of its own, so requests in different *)
(* slots interleave at exactly those points.                               *)
(***************************************************************************)
EXTENDS Integers, Sequences, FiniteSets, TLC

VARIABLES
  users,     \* rows of prisma.user
  livros,    \* rows of prisma.livros
  nextId,    \* number of book ids the store has generated so far
  now,       \* the server clock, in hours
  dbUp,      \* whether the database answers
  wallet,    \* the token the client holds (the last one a login returned)
  received,  \* number of requests received so far
  reqs,      \* slot -> the request in flight there, or Idle
  proc       \* the server process: its environment and how far it has started

vars == <<users, livros, nextId, now, dbUp, wallet, received, reqs, proc>>

----------------------------------------------------------------------------
(* Bounds of the model *)

MaxInFlight == 2
MaxBooks == 1
MaxTime == 2
MaxRequests == 3

Slots == 1..MaxInFlight

----------------------------------------------------------------------------
(* JSON values as they arrive on the wire: a type tag, the characters of a *)
(* string, the value of a number or the instant of a Date.                 *)

Str(cs) == [t |-> "string", s |-> cs, n |-> 0]
Num(k) == [t |-> "number", s |-> <<>>, n |-> k]
Date(k) == [t |-> "date", s |-> <<>>, n |-> k]
Undefined == [t |-> "undefined", s |-> <<>>, n |-> 0]

AnaEmail == <<"a", "@", "x", ".", "c", "o">>
BobEmail == <<"b", "@", "x", ".", "c", "o">>
NotAnEmail == <<"a", "x", ".", "c", "o">>
Pass1 == <<"1", "2", "3", "4", "5", "6", "7", "8">>
Pass2 == <<"a", "b", "c", "d", "e", "f", "g", "h">>
ShortPass == <<"w", "r", "o", "n", "g">>
Ana == <<"A", "n", "a">>
Dune == <<"D", "u", "n", "e">>
Emma == <<"E", "m", "m", "a">>
Herbert == <<"H", "e", "r", "b", "e", "r", "t">>

----------------------------------------------------------------------------
(* zod checks *)

\* z.string()
ZString(v) == v.t = "string"

\* z.number()
ZNumber(v) == v.t = "number"

\* z.date()
ZDate(v) == v.t = "date"

\* z.string().min(k)
ZStringMin(v, k) == ZString(v) /\ Len(v.s) >= k

\* z.string().email(): one "@" with a local part before it and, after it, a
\* domain that has a dot followed by at least two characters
ZEmail(v) ==
  /\ ZString(v)
  /\ \E i \in 1..Len(v.s) :
       /\ v.s[i] = "@"
       /\ i > 1
       /\ \A k \in 1..Len(v.s) : v.s[k] = "@" => k = i
       /\ \E j \in (i + 2)..(Len(v.s) - 2) : v.s[j] = "."

----------------------------------------------------------------------------
(* Request bodies. A body is an object with every field the routes read; a *)
(* field the client left out is Undefined, and a request sent without a    *)
(* body has present = FALSE (request.body is undefined).                   *)

Body(nome, email, password, autor, preco, quantidade) ==
  [present |-> TRUE, nome |-> nome, email |-> email, password |-> password,
   autor |-> autor, preco |-> preco, quantidade |-> quantidade]

NoBody ==
  [present |-> FALSE, nome |-> Undefined, email |-> Undefined,
   password |-> Undefined, autor |-> Undefined, preco |-> Undefined,
   quantidade |-> Undefined]

UserBody(nome, email, password) ==
  Body(nome, email, password, Undefined, Undefined, Undefined)

LoginBody(email, password) ==
  Body(Undefined, email, password, Undefined, Undefined, Undefined)

BookBody(nome, autor, preco, quantidade) ==
  Body(nome, Undefined, Undefined, autor, preco, quantidade)

\* the bodies clients send to POST /user
UserBodies ==
  {UserBody(Str(Ana), Str(AnaEmail), Str(Pass1)),
   UserBody(Str(Ana), Str(AnaEmail), Str(Pass2)),
   UserBody(Str(Ana), Str(NotAnEmail), Str(Pass1)),
   UserBody(Undefined, Str(AnaEmail), Str(ShortPass))}

\* the bodies clients send to POST /login
LoginBodies ==
  {LoginBody(Str(AnaEmail), Str(Pass1)),
   LoginBody(Str(AnaEmail), Str(Pass2)),
   LoginBody(Str(BobEmail), Str(Pass1)),
   LoginBody(Str(NotAnEmail), Str(Pass1)),
   LoginBody(Undefined, Str(Pass1)),
   LoginBody(Str(AnaEmail), Undefined),
   NoBody}

\* the bodies clients send to POST /livros and PUT /livros/:id
BookBodies ==
  {BookBody(Str(Dune), Str(Herbert), Num(10), Num(3)),
   BookBody(Str(Emma), Str(Herbert), Num(-5), Num(-1)),
   BookBody(Str(Dune), Str(Herbert), Str(<<"1", "0">>), Num(3))}

----------------------------------------------------------------------------
(* The schemas *)

\* schemas/user.ts: createUserSchema
createUserSchema(b) ==
  /\ b.present
  /\ ZString(b.nome)
  /\ ZEmail(b.email)
  /\ ZStringMin(b.password, 8)

\* schemas/login.ts: loginUserSchema (an email and a password)
loginUserSchema(b) ==
  /\ b.present
  /\ ZEmail(b.email)
  /\ ZString(b.password)

\* schemas/livro.ts: createBookSchema
createBookSchema(b) ==
  /\ b.present
  /\ ZString(b.nome)
  /\ ZString(b.autor)
  /\ ZNumber(b.preco)
  /\ ZNumber(b.quantidade)

\* schemas/livro.ts: idParamsSchema
idParamsSchema(id) == ZString(id)

\* (mutant) the response schema also declares the password
userResponseFields_withPassword == {"id", "nome", "email", "password"}

\* schemas/user.ts: userResponseSchema, the fields it keeps and its checks
userResponseFields == {"id", "nome", "email"}

userResponseSchema(o) ==
  /\ userResponseFields \subseteq DOMAIN o
  /\ ZString(o.id)
  /\ ZString(o.nome)
  /\ ZEmail(o.email)

\* schemas/user.ts: userAlreadyExistResponseSchema
userAlreadyExistFields == {"message"}

userAlreadyExistResponseSchema(o) ==
  /\ userAlreadyExistFields \subseteq DOMAIN o
  /\ ZString(o.message)

\* (mutant) a response schema without the timestamps
bookResponseFields_noTimestamps == {"id", "nome", "autor", "preco", "quantidade"}

\* (mutant) a response schema no stored book satisfies
bookResponseSchema_rejecting(o) == FALSE

\* schemas/livro.ts: bookResponseSchema
bookResponseFields ==
  {"id", "nome", "autor", "preco", "quantidade", "createdAt", "updatedAt"}

bookResponseSchema(o) ==
  /\ bookResponseFields \subseteq DOMAIN o
  /\ ZString(o.id)
  /\ ZString(o.nome)
  /\ ZString(o.autor)
  /\ ZNumber(o.preco)
  /\ ZNumber(o.quantidade)
  /\ ZDate(o.createdAt)
  /\ ZDate(o.updatedAt)

\* z.object({ error: z.string() }) and z.object({ message: z.string() })
errorFields == {"error"}

errorSchema(o) == errorFields \subseteq DOMAIN o /\ ZString(o.error)

messageFields == {"message"}

messageSchema(o) == messageFields \subseteq DOMAIN o /\ ZString(o.message)

\* what z.object(...).parse keeps of an object: the declared keys only
Strip(o, fields) == [f \in fields |-> o[f]]

----------------------------------------------------------------------------
(* Tokens (@fastify/jwt) *)

\* app.register(fastifyJwt, { secret: "secret" })
jwtSecret == <<"s", "e", "c", "r", "e", "t">>

\* the sign options given to fastifyJwt: none, so no expiresIn
signExpiresIn == [set |-> FALSE, hours |-> 0]

NoToken ==
  [t |-> "none", id |-> Undefined, email |-> Undefined, iat |-> 0,
   hasExp |-> FALSE, exp |-> 0, sig |-> <<>>]

\* app.jwt.sign({ id, email }) at time t
jwtSign(id, email, t) ==
  [t |-> "jwt", id |-> id, email |-> email, iat |-> t,
   hasExp |-> signExpiresIn.set, exp |-> t + signExpiresIn.hours,
   sig |-> jwtSecret]

\* request.jwtVerify() at time t: TRUE when it resolves, FALSE when it throws
jwtVerify(tok, t) ==
  /\ tok.t = "jwt"
  /\ tok.sig = jwtSecret
  /\ (tok.hasExp => t <= tok.exp)

\* request.user after jwtVerify: the decoded payload
jwtPayload(tok) ==
  [id |-> tok.id, email |-> tok.email, iat |-> Num(tok.iat)]
    @@ (IF tok.hasExp THEN [exp |-> Num(tok.exp)] ELSE <<>>)

\* tokens a client can make without the server: signed with another secret
ForgedTokens ==
  {[t |-> "jwt", id |-> Str(<<"u", "1">>), email |-> Str(AnaEmail), iat |-> 0,
    hasExp |-> FALSE, exp |-> 0, sig |-> <<"o", "t", "h", "e", "r">>]}

----------------------------------------------------------------------------
(* Password hashing (utils/hash.ts, bcrypt) *)

Salts == {"s1", "s2"}

\* hashPassword: a digest string made of the algorithm tag, the salt and
\* the characters derived from the password
hashPassword(password, salt) == Str(<<"$2a$", salt>> \o password.s)

\* verifyPassword: hashes the password again with the digest's salt and
\* compares
verifyPassword(password, digest) ==
  /\ Len(digest.s) >= 2
  /\ hashPassword(password, digest.s[2]) = digest

IsDigest(v) == v.t = "string" /\ Len(v.s) >= 1 /\ v.s[1] = "$2a$"

----------------------------------------------------------------------------
(* The record store (Prisma) *)

UserId(k) == Str(<<"u", ToString(k)>>)
BookId(k) == Str(<<"b", ToString(k)>>)

\* the ids a client puts in the path of PUT and DELETE /livros/:id: the ids
\* the store has generated so far, and one it never generates
IdParams == {BookId(k) : k \in 0..nextId}

\* (mutant) the lookup compares another column
userFindUnique_byNome(email) == {u \in users : u.nome = email}

\* prisma.user.findUnique({ where: { email } }): the rows found (none or one)
userFindUnique(email) == {u \in users : u.email = email}

\* the row prisma.user.create inserts
userRow(nome, email, hashed) ==
  [id |-> UserId(Cardinality(users) + 1), nome |-> nome, email |-> email,
   password |-> hashed]

\* prisma.livros.create: the row inserted at time t
livroRow(b, t) ==
  [id |-> BookId(nextId + 1), nome |-> b.nome, autor |-> b.autor,
   preco |-> b.preco, quantidade |-> b.quantidade,
   createdAt |-> Date(t), updatedAt |-> Date(t)]

\* prisma.livros.update: the row after the update at time t
livroUpdated(row, b, t) ==
  [row EXCEPT !.nome = b.nome, !.autor = b.autor, !.preco = b.preco,
              !.quantidade = b.quantidade, !.updatedAt = Date(t)]

\* rows with the given id (none or one)
livroFind(id) == {l \in livros : l.id = id}

\* (mutant) a delete that only answers and keeps the row
livroDelete_keepsRow(found) == livros

\* prisma.livros.delete({ where: { id } }): the rows left once the row
\* found is removed
livroDelete(found) == livros \ found

\* (mutant) an email column without the unique constraint
userCreateRejects_noConstraint(email) == FALSE

\* the unique constraint of the email column: prisma.user.create rejects a
\* row whose email another row already has
userCreateRejects(email) == userFindUnique(email) # {}

----------------------------------------------------------------------------
(* The application: routes, plugins and hooks (server.ts) *)

Routes ==
  {"POST /user", "POST /login", "GET /profile", "POST /livros", "GET /livros",
   "PUT /livros/:id", "DELETE /livros/:id"}

\* the route module that declares each route; app.register gives every
\* module a context of its own
RoutePlugin(route) ==
  CASE route = "POST /user" -> "createUser"
    [] route = "POST /login" -> "login"
    [] route = "GET /profile" -> "profile"
    [] route = "POST /livros" -> "criarLivros"
    [] route = "GET /livros" -> "listarLivros"
    [] route = "PUT /livros/:id" -> "atualizarLivros"
    [] route = "DELETE /livros/:id" -> "removerLivros"

\* the hooks a route module adds with app.addHook
PluginHooks(plugin) ==
  IF plugin \in {"profile", "criarLivros", "listarLivros", "removerLivros"}
  THEN {"jwtVerify"}
  ELSE {}

\* (mutant) the hooks added as preHandler hooks, which run after validation
HookStage_preHandler == "preHandler"

\* the lifecycle stage the modules hook: app.addHook("onRequest", ...)
HookStage == "onRequest"

\* (mutant) hooks added to one shared context: every module's hooks run
\* for every route
HooksFor_sharedContext(route) == UNION {PluginHooks(RoutePlugin(r)) : r \in Routes}

\* the hooks that run for a route: those of its own context only
HooksFor(route) == PluginHooks(RoutePlugin(route))

\* the body schema a route declares, applied to a body
BodySchemaOk(route, b) ==
  CASE route = "POST /user" -> createUserSchema(b)
    [] route = "POST /livros" -> createBookSchema(b)
    [] route = "PUT /livros/:id" -> createBookSchema(b)
    [] OTHER -> TRUE

\* the params schema a route declares, applied to the path id
ParamsSchemaOk(route, id) ==
  CASE route = "PUT /livros/:id" -> idParamsSchema(id)
    [] route = "DELETE /livros/:id" -> idParamsSchema(id)
    [] OTHER -> TRUE

\* the response schemas a route declares, by status code
HasResponseSchema(route, status) ==
  \/ route = "POST /user" /\ status \in {201, 400}
  \/ route = "POST /livros" /\ status \in {201, 500}
  \/ route = "GET /livros" /\ status \in {200, 500}
  \/ route = "PUT /livros/:id" /\ status \in {200, 500}
  \/ route = "DELETE /livros/:id" /\ status \in {200, 404}

ResponseFields(route, status) ==
  CASE route = "POST /user" /\ status = 201 -> userResponseFields
    [] route = "POST /user" /\ status = 400 -> userAlreadyExistFields
    [] route \in {"POST /livros", "GET /livros", "PUT /livros/:id"}
         /\ status \in {200, 201} -> bookResponseFields
    [] route = "DELETE /livros/:id" /\ status = 200 -> messageFields
    [] OTHER -> errorFields

ResponseOk(route, status, o) ==
  CASE route = "POST /user" /\ status = 201 -> userResponseSchema(o)
    [] route = "POST /user" /\ status = 400 -> userAlreadyExistResponseSchema(o)
    [] route \in {"POST /livros", "GET /livros", "PUT /livros/:id"}
         /\ status \in {200, 201} -> bookResponseSchema(o)
    [] route = "DELETE /livros/:id" /\ status = 200 -> messageSchema(o)
    [] OTHER -> errorSchema(o)

----------------------------------------------------------------------------
(* Replies *)

Reply(status, body) ==
  [status |-> status, body |-> body, array |-> FALSE, items |-> {}]

NoReply == Reply(0, <<>>)

\* the error object Fastify's default error handler sends
ErrorObject(status, name, message) ==
  [statusCode |-> Num(status), error |-> Str(<<name>>), message |-> Str(<<message>>)]

\* an error reply: the error object, through the route's schema for that
\* status when it declares one
ErrorReply(route, status, name, message) ==
  LET o == ErrorObject(status, name, message) IN
  IF HasResponseSchema(route, status) /\ ResponseOk(route, status, o)
  THEN Reply(status, Strip(o, ResponseFields(route, status)))
  ELSE Reply(status, o)

\* reply.status(status).send(payload): the serializer compiler parses the
\* payload with the route's schema for that status, which keeps the declared
\* keys only; a payload that does not match is a serialization error
Send(route, status, payload) ==
  IF ~HasResponseSchema(route, status) THEN Reply(status, payload)
  ELSE IF ResponseOk(route, status, payload)
  THEN Reply(status, Strip(payload, ResponseFields(route, status)))
  ELSE ErrorReply(route, 500, "Internal Server Error",
                  "Response doesn't match the schema")

\* reply.send(rows) on GET /livros: z.array(bookResponseSchema)
SendList(route, status, rows) ==
  IF \A row \in rows : ResponseOk(route, status, row)
  THEN [status |-> status, body |-> <<>>, array |-> TRUE,
        items |-> {Strip(row, ResponseFields(route, status)) : row \in rows}]
  ELSE ErrorReply(route, 500, "Internal Server Error",
                  "Response doesn't match the schema")

\* an error thrown out of a handler: the default error handler answers 500
\* with the error's message
Unhandled(route, message) ==
  ErrorReply(route, 500, "Internal Server Error", message)

\* the reply to a request that fails validation
ValidationError(route) ==
  ErrorReply(route, 400, "Bad Request", "body/params do not match the schema")

\* criar-livros.ts, listar-livros.ts, remover-livros.ts, profile.ts: the
\* reply of the catch in the onRequest hook
ReplyNotLoggedIn ==
  Reply(401, [error |-> Str(<<"Voce precia estar logado.">>)])

----------------------------------------------------------------------------
(* Requests *)

Idle == [pc |-> "idle"]

\* a request as received: its inputs, the handler's locals (user, hashed),
\* the reply, and a record of what the request has done so far (whether its
\* handler ran, how many calls it made on the store)
NewRequest(route, token, id, body) ==
  [pc |-> "onRequest", route |-> route, token |-> token, id |-> id,
   body |-> body, user |-> {}, hashed |-> Undefined,
   sent |-> FALSE, reply |-> NoReply,
   handlerRan |-> FALSE, storeCalls |-> 0]

\* the tokens a client can present: none, the one it holds, a forged one
Presentable == {NoToken, wallet} \cup ForgedTokens

\* the requests clients send, route by route
RequestsFor(route) ==
  CASE route = "POST /user" ->
         {NewRequest(route, NoToken, Undefined, b) : b \in UserBodies}
    [] route = "POST /login" ->
         {NewRequest(route, NoToken, Undefined, b) : b \in LoginBodies}
    [] route = "GET /profile" ->
         {NewRequest(route, tok, Undefined, NoBody) : tok \in Presentable}
    [] route = "POST /livros" ->
         {NewRequest(route, tok, Undefined, b) : tok \in Presentable, b \in BookBodies}
    [] route = "GET /livros" ->
         {NewRequest(route, tok, Undefined, NoBody) : tok \in Presentable}
    [] route = "PUT /livros/:id" ->
         {NewRequest(route, NoToken, id, b) : id \in IdParams, b \in BookBodies}
    [] route = "DELETE /livros/:id" ->
         {NewRequest(route, tok, id, NoBody) : tok \in Presentable, id \in IdParams}

\* reply.send(...) of a request: the reply is sent and the request is over
Sent(r, reply) == [r EXCEPT !.sent = TRUE, !.reply = reply, !.pc = "done"]

\* (mutant) the hook with a catch that sends nothing
jwtHook_silentCatch(r, t) == r

\* the onRequest hook of the protected route modules:
\*   try { await request.jwtVerify() } catch { reply.status(401).send(...) }
jwtHook(r, t) ==
  IF jwtVerify(r.token, t) THEN r
  ELSE Sent(r, Send(r.route, 401, ReplyNotLoggedIn.body))

\* Fastify's hook runner for one stage: runs the route's hooks registered for
\* that stage and goes on to the next stage unless a hook has sent the reply
RunHooks(r, stage, next, t) ==
  LET after == IF stage = HookStage /\ "jwtVerify" \in HooksFor(r.route)
               THEN jwtHook(r, t)
               ELSE r
  IN IF after.sent THEN after ELSE [after EXCEPT !.pc = next]

\* Fastify's validation stage: the params and body schemas of the route
Validate(r, next) ==
  IF ParamsSchemaOk(r.route, r.id) /\ BodySchemaOk(r.route, r.body)
  THEN [r EXCEPT !.pc = next]
  ELSE Sent(r, ValidationError(r.route))

\* Fastify's lifecycle up to the handler, at time t: each stage runs only
\* when no earlier stage has sent the reply
Lifecycle(r, t) ==
  LET a == RunHooks(r, "onRequest", "validation", t)
      b == IF a.sent THEN a ELSE Validate(a, "preHandler")
  IN IF b.sent THEN b ELSE RunHooks(b, "preHandler", "handler", t)

----------------------------------------------------------------------------
(* Configuration and start-up (schemas/env.ts, utils/env.ts, server.ts) *)

\* process.env as dotenv leaves it: each variable a string or undefined
Env(url, secret, port) == [DATABASE_URL |-> url, SECRET_JWT |-> secret, PORT |-> port]

DevDb == <<"f", "i", "l", "e", ":", "d", "e", "v", ".", "d", "b">>
LongSecret == <<"s", "u", "p", "e", "r", "-", "s", "e", "c", "r", "e", "t">>
ShortSecret == <<"a", "b", "c">>
Port8080 == <<"8", "0", "8", "0">>
PortText == <<"h", "t", "t", "p">>

\* the environments the server is started in
Envs ==
  {Env(url, secret, port) :
     url \in {Undefined, Str(<<>>), Str(DevDb)},
     secret \in {Undefined, Str(ShortSecret), Str(LongSecret)},
     port \in {Undefined, Str(<<>>), Str(Port8080), Str(PortText)}}

\* the environment of a deployment configured as documented
DeployedEnv == Env(Str(DevDb), Str(LongSecret), Undefined)

DigitOf(c) ==
  CASE c = "0" -> 0 [] c = "1" -> 1 [] c = "2" -> 2 [] c = "3" -> 3
    [] c = "4" -> 4 [] c = "5" -> 5 [] c = "6" -> 6 [] c = "7" -> 7
    [] c = "8" -> 8 [] c = "9" -> 9

IsDigits(cs) ==
  \A i \in 1..Len(cs) : cs[i] \in {"0", "1", "2", "3", "4", "5", "6", "7", "8", "9"}

RECURSIVE DigitsValue(_)
DigitsValue(cs) ==
  IF cs = <<>> THEN 0
  ELSE 10 * DigitsValue(SubSeq(cs, 1, Len(cs) - 1)) + DigitOf(cs[Len(cs)])

\* z.coerce.number(): Number(value), which is NaN for a text that is no
\* number and 0 for the empty text; z.number() rejects NaN
ZCoerceNumber(v) ==
  IF v.t = "string" /\ IsDigits(v.s)
  THEN [nan |-> FALSE, n |-> DigitsValue(v.s)]
  ELSE [nan |-> TRUE, n |-> 0]

\* the port envSchema gives when PORT is absent
DefaultPort == 3000

\* schemas/env.ts: envSchema, whether safeParse succeeds
envSchema(e) ==
  /\ ZStringMin(e.DATABASE_URL, 1)
  /\ ZStringMin(e.SECRET_JWT, 8)
  /\ (e.PORT # Undefined => ~ZCoerceNumber(e.PORT).nan)

\* schemas/env.ts: the PORT of the parsed data
envPort(e) == IF e.PORT = Undefined THEN DefaultPort ELSE ZCoerceNumber(e.PORT).n

\* the modules server.ts imports, directly or through the route modules
ServerImports ==
  {"routes/usuarios/create-user", "routes/usuarios/login",
   "routes/usuarios/profile", "routes/livros/criar-livros",
   "routes/livros/listar-livros", "routes/livros/atualizar-livros",
   "routes/livros/remover-livros", "lib/prisma", "utils/hash",
   "schemas/user", "schemas/login", "schemas/livro"}

\* the port server.ts listens on: app.listen({ port: 3000 })
ListenPort == 3000

\* the process as node starts it
Started(e) ==
  [env |-> e, pc |-> "start", exitCode |-> 0, port |-> 0, secret |-> <<>>]

\* utils/env.ts, evaluated when a module imports it: process.exit(1) when
\* the environment does not parse
loadEnv(p) ==
  IF envSchema(p.env) THEN p ELSE [p EXCEPT !.pc = "exited", !.exitCode = 1]

\* server.ts, the imports: every imported module is evaluated
loadModules(p) ==
  LET q == IF "utils/env" \in ServerImports THEN loadEnv(p) ELSE p
  IN IF q.pc = "exited" THEN q ELSE [q EXCEPT !.pc = "loaded"]

\* server.ts: fastify(), the compilers, the app.register calls and app.get
createApp(p) == [p EXCEPT !.pc = "created"]

\* server.ts: app.listen, which first loads the registered plugins
\* (fastifyJwt with its secret) and then binds the port
listen(p) == [p EXCEPT !.pc = "listening", !.secret = jwtSecret, !.port = ListenPort]

----------------------------------------------------------------------------
(* The lifecycle *)

\* the user the database may already hold when the server starts, and the
\* token of a login of that user at hour 0
SeededUser ==
  [id |-> UserId(1), nome |-> Str(Ana), email |-> Str(AnaEmail),
   password |-> hashPassword(Str(Pass1), "s1")]

SeededToken == jwtSign(SeededUser.id, SeededUser.email, 0)

Init ==
  /\ \/ users = {} /\ wallet = NoToken
     \/ users = {SeededUser} /\ wallet \in {NoToken, SeededToken}
  /\ livros = {}
  /\ nextId = 0
  /\ now = 0
  /\ dbUp = TRUE
  /\ received = 0
  /\ reqs = [s \in Slots |-> Idle]
  /\ proc = listen(createApp(loadModules(Started(DeployedEnv))))

\* a request arrives in the first free slot; clients have read the replies
\* already sent (reading a reply changes nothing on the server)
Arrives(s) ==
  /\ proc.pc = "listening"
  /\ reqs[s].pc = "idle"
  /\ \A k \in Slots : k < s => reqs[k].pc # "idle"
  /\ \A k \in Slots : reqs[k].pc # "done"
  /\ received < MaxRequests
  /\ received' = received + 1

\* the request in slot s becomes r, and the store stays as it is
Keeps(s, r) ==
  /\ reqs' = [reqs EXCEPT ![s] = r]
  /\ UNCHANGED <<users, livros, nextId>>

----------------------------------------------------------------------------
(* The handlers. Every await on the store or on bcrypt ends a step. *)

\* the handler body starts running
Ran(r) == [r EXCEPT !.handlerRan = TRUE]

\* the request calls the prisma client once more
Called(r) == [r EXCEPT !.storeCalls = @ + 1]

\* create-user.ts
ReplyUserExists == Reply(400, [message |-> Str(<<"Usuario ja existe">>)])

\* (mutant) an unknown email answered 404
ReplyUserNotFound_404 == Reply(404, [message |-> Str(<<"Usuario nao encontrado">>)])

\* login.ts
ReplyUserNotFound == Reply(400, [message |-> Str(<<"Usuario nao encontrado">>)])

ReplyWrongPassword == Reply(400, [message |-> Str(<<"Senha incorreta">>)])

ReplyToken(token) == Reply(200, [token |-> token])

\* criar-livros.ts, listar-livros.ts, atualizar-livros.ts, remover-livros.ts
ReplyCreateFailed == Reply(500, [error |-> Str(<<"Erro ao criar livro">>)])

ReplyListFailed == Reply(500, [error |-> Str(<<"Erro ao buscar livros">>)])

ReplyUpdateFailed == Reply(500, [error |-> Str(<<"Nao foi possivel atualizar o livro">>)])

ReplyRemoved == Reply(200, [message |-> Str(<<"Livro removidoo com sucesso">>)])

ReplyBookNotFound == Reply(404, [error |-> Str(<<"Livro nao encontrado">>)])

\* the handler's send of one of the replies above, through the serializer
SendReply(r, reply) == Sent(r, Send(r.route, reply.status, reply.body))

\* POST /user, up to const existeUser = await prisma.user.findUnique(...)
\* and the reply when the user exists
CreateUserLookup(s) ==
  /\ Arrives(s)
  /\ \E req \in RequestsFor("POST /user") :
       LET a == Lifecycle(req, now)
           r == Called(Ran(a))
       IN Keeps(s,
            IF a.sent THEN a
            ELSE IF ~dbUp THEN Sent(r, Unhandled(r.route, "Can't reach database server"))
            ELSE IF userFindUnique(r.body.email) # {} THEN SendReply(r, ReplyUserExists)
            ELSE [r EXCEPT !.pc = "hash"])
  /\ UNCHANGED <<now, dbUp, wallet, proc>>

\* POST /user, second step: const hashedPassword = await hashPassword(password)
CreateUserHash(s) ==
  /\ reqs[s].pc = "hash"
  /\ \E salt \in Salts :
       Keeps(s, [reqs[s] EXCEPT !.hashed = hashPassword(reqs[s].body.password, salt),
                                !.pc = "create"])
  /\ UNCHANGED <<now, dbUp, wallet, received, proc>>

\* POST /user, third step: const user = await prisma.user.create(...) and
\* reply.status(201).send(user); the email column is unique, and an error of
\* the store is not caught
CreateUserCreate(s) ==
  LET r == Called(reqs[s])
      row == userRow(r.body.nome, r.body.email, r.hashed)
  IN
  /\ reqs[s].pc = "create"
  /\ IF ~dbUp
     THEN Keeps(s, Sent(r, Unhandled(r.route, "Can't reach database server")))
     ELSE IF userCreateRejects(r.body.email)
     THEN Keeps(s, Sent(r, Unhandled(r.route, "Unique constraint failed on the fields: (email)")))
     ELSE /\ users' = users \cup {row}
          /\ reqs' = [reqs EXCEPT ![s] = Sent(r, Send(r.route, 201, row))]
          /\ UNCHANGED <<livros, nextId>>
  /\ UNCHANGED <<now, dbUp, wallet, received, proc>>

\* POST /login, up to const { email, password } = request.body;
\* const user = await prisma.user.findUnique(...); if (!user) reply 400
LoginLookup(s) ==
  /\ Arrives(s)
  /\ \E req \in RequestsFor("POST /login") :
       LET a == Lifecycle(req, now)
           r == Ran(a)
       IN Keeps(s,
            IF a.sent THEN a
            ELSE IF ~r.body.present
            THEN Sent(r, Unhandled(r.route, "Cannot destructure property of undefined"))
            ELSE IF ~ZString(r.body.email)
            THEN Sent(Called(r), Unhandled(r.route, "Invalid prisma.user.findUnique() invocation"))
            ELSE IF ~dbUp
            THEN Sent(Called(r), Unhandled(r.route, "Can't reach database server"))
            ELSE IF userFindUnique(r.body.email) = {}
            THEN SendReply(Called(r), ReplyUserNotFound)
            ELSE [Called(r) EXCEPT !.user = userFindUnique(r.body.email), !.pc = "verify"])
  /\ UNCHANGED <<now, dbUp, wallet, proc>>

\* POST /login, second step: const isPassword = await verifyPassword(...);
\* if (!isPassword) reply 400; else sign and reply the token. Given a
\* password that is no string, bcrypt rejects or answers false.
LoginVerify(s) ==
  LET r == reqs[s]
      user == CHOOSE u \in r.user : TRUE
  IN
  /\ reqs[s].pc = "verify"
  /\ \E rejects \in BOOLEAN :
       Keeps(s,
         IF ~ZString(r.body.password) /\ rejects
         THEN Sent(r, Unhandled(r.route, "Illegal arguments: undefined, string"))
         ELSE IF ~ZString(r.body.password) \/ ~verifyPassword(r.body.password, user.password)
         THEN SendReply(r, ReplyWrongPassword)
         ELSE SendReply(r, ReplyToken(jwtSign(user.id, user.email, now))))
  /\ UNCHANGED <<now, dbUp, wallet, received, proc>>

\* GET /profile: return request.user
Profile(s) ==
  /\ Arrives(s)
  /\ \E req \in RequestsFor("GET /profile") :
       LET a == Lifecycle(req, now)
           r == Ran(a)
       IN Keeps(s, IF a.sent THEN a ELSE Sent(r, Send(r.route, 200, jwtPayload(r.token))))
  /\ UNCHANGED <<now, dbUp, wallet, proc>>

\* POST /livros: try { create; reply 201 } catch { reply 500 }
CriarLivros(s) ==
  /\ Arrives(s)
  /\ nextId < MaxBooks
  /\ \E req \in RequestsFor("POST /livros") :
       LET a == Lifecycle(req, now)
           r == Called(Ran(a))
           row == livroRow(r.body, now)
       IN IF a.sent THEN Keeps(s, a)
          ELSE IF ~dbUp THEN Keeps(s, SendReply(r, ReplyCreateFailed))
          ELSE /\ livros' = livros \cup {row}
               /\ nextId' = nextId + 1
               /\ reqs' = [reqs EXCEPT ![s] = Sent(r, Send(r.route, 201, row))]
               /\ UNCHANGED users
  /\ UNCHANGED <<now, dbUp, wallet, proc>>

\* GET /livros: try { findMany; reply.send(books) } catch { reply 500 }
ListarLivros(s) ==
  /\ Arrives(s)
  /\ \E req \in RequestsFor("GET /livros") :
       LET a == Lifecycle(req, now)
           r == Called(Ran(a))
       IN Keeps(s,
            IF a.sent THEN a
            ELSE IF ~dbUp THEN SendReply(r, ReplyListFailed)
            ELSE Sent(r, SendList(r.route, 200, livros)))
  /\ UNCHANGED <<now, dbUp, wallet, proc>>

\* PUT /livros/:id: try { update; reply 200 } catch { reply 500 }; update
\* throws when no row has the id
AtualizarLivros(s) ==
  /\ Arrives(s)
  /\ \E req \in RequestsFor("PUT /livros/:id") :
       LET a == Lifecycle(req, now)
           r == Called(Ran(a))
           found == livroFind(r.id)
           old == CHOOSE l \in found : TRUE
           new == livroUpdated(old, r.body, now)
       IN IF a.sent THEN Keeps(s, a)
          ELSE IF ~dbUp \/ found = {} THEN Keeps(s, SendReply(r, ReplyUpdateFailed))
          ELSE /\ livros' = (livros \ {old}) \cup {new}
               /\ reqs' = [reqs EXCEPT ![s] = Sent(r, Send(r.route, 200, new))]
               /\ UNCHANGED <<users, nextId>>
  /\ UNCHANGED <<now, dbUp, wallet, proc>>

\* DELETE /livros/:id: try { delete; reply 200 } catch { reply 404 }; delete
\* throws when no row has the id
RemoverLivros(s) ==
  /\ Arrives(s)
  /\ \E req \in RequestsFor("DELETE /livros/:id") :
       LET a == Lifecycle(req, now)
           r == Called(Ran(a))
           found == livroFind(r.id)
       IN IF a.sent THEN Keeps(s, a)
          ELSE IF ~dbUp \/ found = {} THEN Keeps(s, SendReply(r, ReplyBookNotFound))
          ELSE /\ livros' = livroDelete(found)
               /\ reqs' = [reqs EXCEPT ![s] = SendReply(r, ReplyRemoved)]
               /\ UNCHANGED <<users, nextId>>
  /\ UNCHANGED <<now, dbUp, wallet, proc>>

\* the client reads the reply (and keeps the token of a login) and the slot
\* is free again
Deliver(s) ==
  /\ reqs[s].pc = "done"
  /\ wallet' = IF reqs[s].route = "POST /login" /\ reqs[s].reply.status = 200
               THEN reqs[s].reply.body.token
               ELSE wallet
  /\ reqs' = [reqs EXCEPT ![s] = Idle]
  /\ UNCHANGED <<users, livros, nextId, now, dbUp, received, proc>>

\* an hour passes
Tick ==
  /\ now < MaxTime
  /\ now' = now + 1
  /\ UNCHANGED <<users, livros, nextId, dbUp, wallet, received, reqs, proc>>

Next ==
  \/ \E s \in Slots :
       \/ CreateUserLookup(s)
       \/ CreateUserHash(s)
       \/ CreateUserCreate(s)
       \/ LoginLookup(s)
       \/ LoginVerify(s)
       \/ Profile(s)
       \/ CriarLivros(s)
       \/ ListarLivros(s)
       \/ AtualizarLivros(s)
       \/ RemoverLivros(s)
       \/ Deliver(s)
  \/ Tick

Spec == Init /\ [][Next]_vars

----------------------------------------------------------------------------
(* The same server in front of a database that may stop answering: while *)
(* it is down every call on the store throws.                             *)

DbFails ==
  /\ dbUp
  /\ dbUp' = FALSE
  /\ UNCHANGED <<users, livros, nextId, now, wallet, received, reqs, proc>>

DbRecovers ==
  /\ ~dbUp
  /\ dbUp' = TRUE
  /\ UNCHANGED <<users, livros, nextId, now, wallet, received, reqs, proc>>

NextFault == Next \/ DbFails \/ DbRecovers

SpecFault == Init /\ [][NextFault]_vars

----------------------------------------------------------------------------
(* The start of the server process, in every environment *)

InitBoot ==
  /\ users \in {{}, {SeededUser}}
  /\ livros = {}
  /\ nextId = 0
  /\ now = 0
  /\ dbUp = TRUE
  /\ wallet = NoToken
  /\ received = 0
  /\ reqs = [s \in Slots |-> Idle]
  /\ proc \in {Started(e) : e \in Envs}

Boots(p) ==
  /\ proc' = p
  /\ UNCHANGED <<users, livros, nextId, now, dbUp, wallet, received, reqs>>

LoadModules == proc.pc = "start" /\ Boots(loadModules(proc))

CreateApp == proc.pc = "loaded" /\ Boots(createApp(proc))

Listen == proc.pc = "created" /\ Boots(listen(proc))

NextBoot == LoadModules \/ CreateApp \/ Listen

SpecBoot == InitBoot /\ [][NextBoot]_vars

----------------------------------------------------------------------------
(* Properties *)

Done(s) == reqs[s].pc = "done"

\* the request in slot s arrives in this step
Arriving(s) == reqs[s].pc = "idle" /\ reqs'[s].pc # "idle"

\* a status of the 4xx class
ClientError(status) == status \in 400..499

\* the routes the specification lists as protected
ProtectedRoutes == {"GET /profile", "POST /livros", "GET /livros", "DELETE /livros/:id"}

\* a token the server's verification cannot accept: none, or one signed
\* with another secret
BadToken(tok) == tok.t # "jwt" \/ tok.sig # jwtSecret

\* C1: on a protected route, a request without a token or with a token
\* signed by another secret is answered 401, its handler never runs and it
\* makes no call on the store.
C1_AuthGate ==
  \A s \in Slots :
    (Done(s) /\ reqs[s].route \in ProtectedRoutes /\ BadToken(reqs[s].token))
      => /\ reqs[s].reply.status = 401
         /\ ~reqs[s].handlerRan
         /\ reqs[s].storeCalls = 0

\* a DELETE with a forged token has been answered 401
C1_Witness ==
  \E s \in Slots :
    /\ Done(s)
    /\ reqs[s].route = "DELETE /livros/:id"
    /\ reqs[s].token \in ForgedTokens
    /\ reqs[s].reply.status = 401

\* C2: on a protected route, a request that is both unauthenticated and
\* malformed is answered with the authentication error, not with the
\* validation error.
C2_AuthBeforeValidation ==
  \A s \in Slots :
    (/\ Done(s)
     /\ reqs[s].route \in ProtectedRoutes
     /\ BadToken(reqs[s].token)
     /\ ~(ParamsSchemaOk(reqs[s].route, reqs[s].id) /\ BodySchemaOk(reqs[s].route, reqs[s].body)))
      => /\ reqs[s].reply = ReplyNotLoggedIn
         /\ reqs[s].reply # ValidationError(reqs[s].route)

\* a POST /livros with no token and a body that fails createBookSchema has
\* been answered 401
C2_Witness ==
  \E s \in Slots :
    /\ Done(s)
    /\ reqs[s].route = "POST /livros"
    /\ reqs[s].token = NoToken
    /\ ~createBookSchema(reqs[s].body)
    /\ reqs[s].reply.status = 401

\* the shape each route is specified to accept
DeclaredShapeOk(route, id, b) ==
  CASE route = "POST /user" -> createUserSchema(b)
    [] route = "POST /login" -> loginUserSchema(b)
    [] route = "POST /livros" -> createBookSchema(b)
    [] route = "PUT /livros/:id" -> idParamsSchema(id) /\ createBookSchema(b)
    [] route = "DELETE /livros/:id" -> idParamsSchema(id)
    [] OTHER -> TRUE

\* C3: on every route that takes a body or path parameters, a request whose
\* body or params violate the declared shape is answered with a client error
\* before the handler body runs, and makes no call on the store.
C3_ValidationShortCircuits ==
  \A s \in Slots :
    (Done(s) /\ ~DeclaredShapeOk(reqs[s].route, reqs[s].id, reqs[s].body))
      => /\ ClientError(reqs[s].reply.status)
         /\ ~reqs[s].handlerRan
         /\ reqs[s].storeCalls = 0

\* C4: a registration that arrives when its email is already registered is
\* answered with the Conflict error and creates no record, and no step ever
\* changes or removes a stored user record.
C4_DuplicateEmailConflict ==
  [][/\ \A s \in Slots :
          (/\ Arriving(s)
           /\ reqs'[s].route = "POST /user"
           /\ createUserSchema(reqs'[s].body)
           /\ \E u \in users : u.email = reqs'[s].body.email)
            => /\ reqs'[s].pc = "done"
               /\ reqs'[s].reply = ReplyUserExists
               /\ users' = users
     /\ \A u \in users : u \in users']_vars

\* a registration has been answered with the Conflict error while the
\* record of the first registration is in the store
C4_Witness ==
  \E s \in Slots :
    /\ Done(s)
    /\ reqs[s].route = "POST /user"
    /\ reqs[s].reply = ReplyUserExists
    /\ \E u \in users : u.email = reqs[s].body.email /\ IsDigest(u.password)

\* a value that is a password or a password digest
IsSecret(v) ==
  /\ v.t = "string"
  /\ (IsDigest(v) \/ v.s \in {Pass1, Pass2, ShortPass})

\* an object of a reply that shows a password or a digest, under any key
Leaks(o) ==
  \/ "password" \in DOMAIN o
  \/ \E f \in DOMAIN o :
       \/ IsSecret(o[f])
       \/ o[f].t = "jwt" /\ \E g \in DOMAIN jwtPayload(o[f]) : IsSecret(jwtPayload(o[f])[g])

\* C5: no reply of any route contains a password or a password digest, and
\* the 201 reply of POST /user carries id, nome and email only.
C5_NoPasswordInReplies ==
  \A s \in Slots :
    Done(s) =>
      /\ ~Leaks(reqs[s].reply.body)
      /\ \A o \in reqs[s].reply.items : ~Leaks(o)
      /\ (reqs[s].route = "POST /user" /\ reqs[s].reply.status = 201)
           => DOMAIN reqs[s].reply.body = {"id", "nome", "email"}

\* a registration has been answered 201 and its stored record holds the
\* password digest
C5_Witness ==
  \E s \in Slots :
    /\ Done(s)
    /\ reqs[s].route = "POST /user"
    /\ reqs[s].reply.status = 201
    /\ \E u \in users : u.id = reqs[s].reply.body.id /\ IsDigest(u.password)

\* the login request names a stored user and gives that user's password
ValidCredentials(r) ==
  /\ r.body.present
  /\ ZString(r.body.email)
  /\ ZString(r.body.password)
  /\ \E u \in users : u.email = r.body.email /\ verifyPassword(r.body.password, u.password)

\* C6: POST /login issues a token only when a user with the given email
\* exists and the given password verifies against the stored digest; in
\* every other case the reply is a client error without a token.
C6_TokenOnlyForValidCredentials ==
  \A s \in Slots :
    (Done(s) /\ reqs[s].route = "POST /login")
      => \/ ValidCredentials(reqs[s])
         \/ /\ ClientError(reqs[s].reply.status)
            /\ "token" \notin DOMAIN reqs[s].reply.body

\* a failed login whose lookup found no user with the email
UnknownEmail(r) ==
  /\ r.route = "POST /login"
  /\ r.body.present
  /\ ZString(r.body.email)
  /\ r.storeCalls = 1
  /\ r.user = {}

\* a failed login whose lookup found the user and whose password does not
\* verify
WrongPassword(r) ==
  /\ r.route = "POST /login"
  /\ r.user # {}
  /\ ZString(r.body.password)
  /\ \A u \in r.user : ~verifyPassword(r.body.password, u.password)

\* C7: a login with an unknown email and a login with a known email and a
\* wrong password are answered with the same status, a client error.
C7_SameStatus ==
  \A s1, s2 \in Slots :
    (Done(s1) /\ Done(s2) /\ UnknownEmail(reqs[s1]) /\ WrongPassword(reqs[s2]))
      => /\ reqs[s1].reply.status = reqs[s2].reply.status
         /\ ClientError(reqs[s1].reply.status)

\* both kinds of failed login have been answered and not yet read
C7_Witness ==
  \E s1, s2 \in Slots :
    /\ Done(s1)
    /\ Done(s2)
    /\ UnknownEmail(reqs[s1])
    /\ WrongPassword(reqs[s2])

\* C8: the whole error reply of POST /login, status and body, is the same
\* for an unknown email and for a wrong password.
C8_SameReply ==
  \A s1, s2 \in Slots :
    (Done(s1) /\ Done(s2) /\ UnknownEmail(reqs[s1]) /\ WrongPassword(reqs[s2]))
      => reqs[s1].reply = reqs[s2].reply

\* the lifetime the documentation gives a token, in hours
OneHour == 1

\* C9: a token issued at login is accepted on a protected route at every
\* time before its expiry, one hour after issuance, and rejected with the
\* authentication error at every time after it.
C9_TokenExpires ==
  [][\A s \in Slots :
       (/\ Arriving(s)
        /\ reqs'[s].route \in ProtectedRoutes
        /\ ~BadToken(reqs'[s].token))
         => /\ now < reqs'[s].token.iat + OneHour => reqs'[s].reply.status # 401
            /\ now > reqs'[s].token.iat + OneHour => reqs'[s].reply.status = 401]_vars

\* C10: PUT /livros/:id on an id that matches no stored book is answered
\* with the Not-Found error and changes no stored book. Stated for the
\* bodies that reach the handler, where the handler decides the answer (a
\* body that fails createBookSchema is answered 400 by the validation stage,
\* whatever the id).
C10_UpdateMissingNotFound ==
  [][\A s \in Slots :
       (/\ Arriving(s)
        /\ reqs'[s].route = "PUT /livros/:id"
        /\ createBookSchema(reqs'[s].body)
        /\ livroFind(reqs'[s].id) = {})
         => /\ reqs'[s].reply.status = 404
            /\ livros' = livros]_vars

\* the ids the store has generated so far
GeneratedIds == {BookId(k) : k \in 1..nextId}

\* a generated id whose book is no longer stored: only a delete removes one
Gone(id) == id \in GeneratedIds /\ livroFind(id) = {}

\* C11: once an authenticated DELETE /livros/:id has succeeded for an id the
\* book is gone for good: the delete removes the row, no later step brings
\* the id back, a list shows stored books only, and a later authenticated
\* DELETE of the same id is answered with the Not-Found error and leaves
\* the store unchanged.
C11_DeleteIsPermanent ==
  [][/\ \A s \in Slots :
         (/\ Arriving(s)
          /\ reqs'[s].route = "DELETE /livros/:id"
          /\ reqs'[s].reply.status = 200)
           => /\ livroFind(reqs'[s].id) # {}
              /\ \A l \in livros' : l.id # reqs'[s].id
     /\ \A id \in GeneratedIds :
         Gone(id) => \A l \in livros' : l.id # id
     /\ \A s \in Slots :
         (/\ Arriving(s)
          /\ reqs'[s].route = "GET /livros"
          /\ reqs'[s].reply.status = 200)
           => \A o \in reqs'[s].reply.items : ~Gone(o.id)
     /\ \A s \in Slots :
         (/\ Arriving(s)
          /\ reqs'[s].route = "DELETE /livros/:id"
          /\ ~BadToken(reqs'[s].token)
          /\ Gone(reqs'[s].id))
           => /\ reqs'[s].reply = ReplyBookNotFound
              /\ livros' = livros
              /\ users' = users]_vars

\* an authenticated DELETE of an id whose book was deleted before has been
\* answered with the Not-Found error
C11_Witness ==
  \E s \in Slots :
    /\ Done(s)
    /\ reqs[s].route = "DELETE /livros/:id"
    /\ ~BadToken(reqs[s].token)
    /\ Gone(reqs[s].id)
    /\ reqs[s].reply.status = 404

\* the fields of a book record as a client sees it
BookRecordFields ==
  {"id", "nome", "autor", "preco", "quantidade", "createdAt", "updatedAt"}

\* a stored book as a client should see it
BookRecord(l) == [f \in BookRecordFields |-> l[f]]

\* C12: a POST /livros answered 201 returns the stored record, made of the
\* submitted nome, autor, preco and quantidade and a new id, createdAt and
\* updatedAt; a stored record stays as it is until a PUT or DELETE of its
\* id; and an authenticated GET /livros returns a list with every stored
\* record, all seven fields of each.
C12_CreateThenList ==
  [][/\ \A s \in Slots :
         (/\ Arriving(s)
          /\ reqs'[s].route = "POST /livros"
          /\ reqs'[s].reply.status = 201)
           => /\ createBookSchema(reqs'[s].body)
              /\ DOMAIN reqs'[s].reply.body = BookRecordFields
              /\ reqs'[s].reply.body.nome = reqs'[s].body.nome
              /\ reqs'[s].reply.body.autor = reqs'[s].body.autor
              /\ reqs'[s].reply.body.preco = reqs'[s].body.preco
              /\ reqs'[s].reply.body.quantidade = reqs'[s].body.quantidade
              /\ ZDate(reqs'[s].reply.body.createdAt)
              /\ ZDate(reqs'[s].reply.body.updatedAt)
              /\ \A l \in livros : l.id # reqs'[s].reply.body.id
              /\ \E l \in livros' : BookRecord(l) = reqs'[s].reply.body
     /\ \A l \in livros :
         l \notin livros' =>
           \E s \in Slots :
             /\ Arriving(s)
             /\ reqs'[s].route \in {"PUT /livros/:id", "DELETE /livros/:id"}
             /\ reqs'[s].id = l.id
     /\ \A s \in Slots :
         (/\ Arriving(s)
          /\ reqs'[s].route = "GET /livros"
          /\ ~BadToken(reqs'[s].token))
           => /\ reqs'[s].reply.status = 200
              /\ reqs'[s].reply.array
              /\ \A l \in livros : BookRecord(l) \in reqs'[s].reply.items]_vars

\* an authenticated GET /livros has returned a list that holds the stored
\* record of a book created before
C12_Witness ==
  \E s \in Slots :
    /\ Done(s)
    /\ reqs[s].route = "GET /livros"
    /\ reqs[s].reply.status = 200
    /\ \E l \in livros :
         /\ createBookSchema(BookBody(l.nome, l.autor, l.preco, l.quantidade))
         /\ BookRecord(l) \in reqs[s].reply.items

\* the number of calls the request in slot s has made on the store
StoreCallsOf(r) == IF r.pc = "idle" THEN 0 ELSE r.storeCalls

\* the texts of the errors the store client throws
StoreErrorDetail ==
  {Str(<<"Can't reach database server">>),
   Str(<<"Invalid prisma.user.findUnique() invocation">>),
   Str(<<"Unique constraint failed on the fields: (email)">>)}

\* C13: a call on the store that fails because the database does not answer
\* is answered by the handler with a server error that carries a fixed
\* generic message: not by the framework's reply to an uncaught exception,
\* not with a client-error status, not with the store's own error text.
C13_StoreErrorsWrapped ==
  [][\A s \in Slots :
       (/\ reqs'[s].pc # "idle"
        /\ StoreCallsOf(reqs'[s]) > StoreCallsOf(reqs[s])
        /\ ~dbUp)
         => /\ reqs'[s].pc = "done"
            /\ reqs'[s].reply.status \in 500..599
            /\ "statusCode" \notin DOMAIN reqs'[s].reply.body
            /\ \A f \in DOMAIN reqs'[s].reply.body :
                 reqs'[s].reply.body[f] \notin StoreErrorDetail]_vars

\* C14: the server listens only in an environment that envSchema accepts (a
\* non-empty DATABASE_URL, a SECRET_JWT of 8 characters or more, a PORT that
\* is a number when given); in any other it has exited with a non-zero code
\* or has not got past loading its modules; it listens on the configured
\* port, 3000 when PORT is absent; and the token signer's secret is the
\* configured SECRET_JWT.
C14_ConfigIsFatal ==
  /\ ~envSchema(proc.env)
       => /\ proc.pc \in {"start", "exited"}
          /\ proc.pc = "exited" => proc.exitCode # 0
  /\ proc.pc = "listening"
       => /\ proc.port = envPort(proc.env)
          /\ Str(proc.secret) = proc.env.SECRET_JWT

\* C15: POST /livros and DELETE /livros/:id without a valid token are
\* answered 401 and change nothing, while a PUT /livros/:id without a token,
\* with the id of a stored book and a valid body, reaches its handler, is
\* answered 200 and replaces the stored fields; no hook of another route
\* module runs for the PUT route.
C15_UpdateNeedsNoToken ==
  [][/\ \A s \in Slots :
         (/\ Arriving(s)
          /\ reqs'[s].route \in {"POST /livros", "DELETE /livros/:id"}
          /\ BadToken(reqs'[s].token))
           => /\ reqs'[s].reply.status = 401
              /\ livros' = livros
     /\ \A s \in Slots :
         (/\ Arriving(s)
          /\ reqs'[s].route = "PUT /livros/:id"
          /\ reqs'[s].token = NoToken
          /\ createBookSchema(reqs'[s].body)
          /\ livroFind(reqs'[s].id) # {})
           => /\ reqs'[s].handlerRan
              /\ reqs'[s].reply.status = 200
              /\ \E l \in livros' :
                   /\ l.id = reqs'[s].id
                   /\ l.nome = reqs'[s].body.nome
                   /\ l.autor = reqs'[s].body.autor
                   /\ l.preco = reqs'[s].body.preco
                   /\ l.quantidade = reqs'[s].body.quantidade
                   /\ l.updatedAt = Date(now)
     /\ HooksFor("PUT /livros/:id") = {}]_vars

\* a PUT without a token has been answered 200 and the stored book carries
\* its fields and the time of the update
C15_Witness ==
  \E s \in Slots :
    /\ Done(s)
    /\ reqs[s].route = "PUT /livros/:id"
    /\ reqs[s].token = NoToken
    /\ reqs[s].reply.status = 200
    /\ \E l \in livros :
         /\ l.id = reqs[s].id
         /\ l.nome = reqs[s].body.nome
         /\ l.preco = reqs[s].body.preco
         /\ l.updatedAt # l.createdAt

\* C16: every stored book has a preco that is a number not below zero and a
\* quantidade that is a whole number not below zero.
C16_NonNegativeStock ==
  \A l \in livros :
    /\ ZNumber(l.preco)
    /\ l.preco.n >= 0
    /\ ZNumber(l.quantidade)
    /\ l.quantidade.n \in Nat

\* the request in slot s is answered 201 by POST /user in this step
Registers(s) ==
  /\ reqs[s].pc # "done"
  /\ reqs'[s].pc = "done"
  /\ reqs'[s].route = "POST /user"
  /\ reqs'[s].reply.status = 201

\* C17: however concurrent POST /user requests interleave between their
\* lookup, their hashing and their create, the store never holds two users
\* with one email, and at most one request for an email is answered 201:
\* a 201 is given only in the step that stores the first user with that
\* email, and never to two requests in flight for the same email.
C17_ConcurrentRegistration ==
  [][/\ \A u, v \in users' : u.email = v.email => u = v
     /\ \A s \in Slots :
         Registers(s)
           => /\ \A u \in users : u.email # reqs'[s].body.email
              /\ \E u \in users' : u.email = reqs'[s].body.email
     /\ \A s1, s2 \in Slots :
         (/\ s1 # s2
          /\ reqs'[s1].pc = "done"
          /\ reqs'[s2].pc = "done"
          /\ reqs'[s1].route = "POST /user"
          /\ reqs'[s2].route = "POST /user"
          /\ reqs'[s1].body.email = reqs'[s2].body.email)
           => ~(reqs'[s1].reply.status = 201 /\ reqs'[s2].reply.status = 201)]_vars

\* two registrations of one email both passed the lookup; one has been
\* answered 201 and the other rejected by the store at its create
C17_Witness ==
  \E s1, s2 \in Slots :
    /\ s1 # s2
    /\ Done(s1)
    /\ Done(s2)
    /\ reqs[s1].route = "POST /user"
    /\ reqs[s2].route = "POST /user"
    /\ reqs[s1].body.email = reqs[s2].body.email
    /\ reqs[s1].reply.status = 201
    /\ reqs[s2].storeCalls = 2
    /\ reqs[s2].reply.status = 500

\* the request in slot s is answered in this step
Finishes(s) == reqs[s].pc # "done" /\ reqs'[s].pc = "done"

\* the answers that go with a write: POST /user 201, POST /livros 201,
\* PUT /livros/:id 200, DELETE /livros/:id 200
SuccessfulWrite(r) ==
  \/ r.route \in {"POST /user", "POST /livros"} /\ r.reply.status = 201
  \/ r.route \in {"PUT /livros/:id", "DELETE /livros/:id"} /\ r.reply.status = 200

\* C18: a request answered with an error (the 401 of a hook, a validation
\* rejection, the 400 of a duplicate email or of a failed login, the 404 of
\* DELETE, a 500) has left the stored users and books as they were, and the
\* store changes only in the step that answers POST /user 201,
\* POST /livros 201, PUT /livros/:id 200 or DELETE /livros/:id 200.
C18_ErrorsChangeNothing ==
  [][/\ \A s \in Slots :
         (Finishes(s) /\ reqs'[s].reply.status >= 400)
           => users' = users /\ livros' = livros
     /\ (users' # users \/ livros' # livros)
          => \E s \in Slots : Finishes(s) /\ SuccessfulWrite(reqs'[s])]_vars

\* a POST /livros that reached the store while the database was down has
\* been answered 500, with a user stored
C18_Witness ==
  \E s \in Slots :
    /\ Done(s)
    /\ reqs[s].route = "POST /livros"
    /\ reqs[s].storeCalls = 1
    /\ reqs[s].reply = ReplyCreateFailed
    /\ users # {}
    /\ livros = {}

====
